---- MODULE Spec2Model ----
(***************************************************************************)
(* The C boundary of the VM agent (ffi/src/vm.rs): agent_launch_vm,        *)
(* agent_stop_vm and agent_cleanup_vm.  The three entry points keep no     *)
(* static data: each one reads its arguments through the raw pointers it   *)
(* is given and returns a status.  The model records every completed call  *)
(* with the status it returned and the memory it touched, so that the      *)
(* lifecycle laws of the specification become statements about the call    *)
(* history.                                                                *)
(***************************************************************************)
EXTENDS Integers, Sequences, FiniteSets, TLC

VARIABLES history, call, pending, results

vars == <<history, call, pending, results>>

(* ------------------------------ bounds --------------------------------- *)

\* number of completed calls recorded in one behaviour
MaxCalls == 4
\* number of threads of the concurrent-launch scenario
NumThreads == 2

(* --------------------------- caller memory ----------------------------- *)

\* *const T: the null pointer, or a pointer to a value owned by the caller
NULL == [null |-> TRUE]

Ptr(v) == [null |-> FALSE, at |-> v]

is_null(p) == p.null

\* *const c_char values a caller passes as an identifier: absent, "", "a"
\* and "\xFF" (NUL-terminated; the byte 0xFF occurs in no UTF-8 encoding)
CharPtrs == {NULL, Ptr(<<0>>), Ptr(<<97, 0>>), Ptr(<<255, 0>>)}

\* rootfs_image values: absent, "", "a"
RootfsPtrs == {NULL, Ptr(<<0>>), Ptr(<<97, 0>>)}

\* network_mode values: absent, "a"
NetworkPtrs == {NULL, Ptr(<<97, 0>>)}

\* cpu_count and memory_mib values: zero and non-zero
Counts == {0, 1}

\* #[repr(C)] struct AgentVMConfig
AgentVMConfig == [id : CharPtrs, rootfs_image : RootfsPtrs,
                  cpu_count : Counts, memory_mib : Counts,
                  network_mode : NetworkPtrs]

\* how many of the fields other than id are absent, empty or zero
Faults(c) ==
    (IF c.rootfs_image \in {NULL, Ptr(<<0>>)} THEN 1 ELSE 0)
    + (IF c.cpu_count = 0 THEN 1 ELSE 0)
    + (IF c.memory_mib = 0 THEN 1 ELSE 0)
    + (IF c.network_mode = NULL THEN 1 ELSE 0)

\* *const AgentVMConfig values a caller passes in a call sequence: null, or
\* a configuration with any id and at most one other field absent, empty
\* or zero
ConfigPtrs == {NULL} \cup {Ptr(c) : c \in {d \in AgentVMConfig : Faults(d) <= 1}}

\* CStr::from_ptr(p).to_bytes(): the bytes before the first NUL
CStr_to_bytes(buf) ==
    LET n == CHOOSE i \in 1..Len(buf) :
                 buf[i] = 0 /\ \A j \in 1..(i - 1) : buf[j] # 0
    IN  SubSeq(buf, 1, n - 1)

\* one memory access of a handler
Read(loc) == [kind |-> "read", loc |-> loc]

(* ------------------------------ handlers ------------------------------- *)

\* agent_launch_vm reading the id field before testing the configuration
\* reference
agent_launch_vm_ReadsFirst(config) ==
    IF is_null(config)
    THEN [ret |-> -1, acc |-> <<Read("config.id")>>]
    ELSE LET vm_config == config.at IN
         IF is_null(vm_config.id)
         THEN [ret |-> -1, acc |-> <<Read("config.id")>>]
         ELSE IF CStr_to_bytes(vm_config.id.at) = <<>>
              THEN [ret |-> -1, acc |-> <<Read("config.id"), Read("id bytes")>>]
              ELSE [ret |-> 0, acc |-> <<Read("config.id"), Read("id bytes")>>]

\* agent_launch_vm with a cpu_count test added the wrong way round
agent_launch_vm_InvertedCpuCheck(config) ==
    IF is_null(config)
    THEN [ret |-> -1, acc |-> <<>>]
    ELSE LET vm_config == config.at IN
         IF is_null(vm_config.id)
         THEN [ret |-> -1, acc |-> <<Read("config.id")>>]
         ELSE IF CStr_to_bytes(vm_config.id.at) = <<>>
              THEN [ret |-> -1, acc |-> <<Read("config.id"), Read("id bytes")>>]
              ELSE IF vm_config.cpu_count # 0
                   THEN [ret |-> -1,
                         acc |-> <<Read("config.id"), Read("id bytes"),
                                   Read("config.cpu_count")>>]
                   ELSE [ret |-> 0,
                         acc |-> <<Read("config.id"), Read("id bytes"),
                                   Read("config.cpu_count")>>]

\* agent_launch_vm that also rejects an absent rootfs_image
agent_launch_vm_ChecksRootfs(config) ==
    IF is_null(config)
    THEN [ret |-> -1, acc |-> <<>>]
    ELSE LET vm_config == config.at IN
         IF is_null(vm_config.id)
         THEN [ret |-> -1, acc |-> <<Read("config.id")>>]
         ELSE IF CStr_to_bytes(vm_config.id.at) = <<>>
              THEN [ret |-> -1, acc |-> <<Read("config.id"), Read("id bytes")>>]
              ELSE IF is_null(vm_config.rootfs_image)
                   THEN [ret |-> -1,
                         acc |-> <<Read("config.id"), Read("id bytes"),
                                   Read("config.rootfs_image")>>]
                   ELSE [ret |-> 0,
                         acc |-> <<Read("config.id"), Read("id bytes"),
                                   Read("config.rootfs_image")>>]

\* agent_launch_vm: the status returned and the accesses made, in order
agent_launch_vm(config) ==
    IF is_null(config)
    THEN [ret |-> -1, acc |-> <<>>]
    ELSE LET vm_config == config.at IN
         IF is_null(vm_config.id)
         THEN [ret |-> -1, acc |-> <<Read("config.id")>>]
         ELSE IF CStr_to_bytes(vm_config.id.at) = <<>>
              THEN [ret |-> -1, acc |-> <<Read("config.id"), Read("id bytes")>>]
              ELSE [ret |-> 0, acc |-> <<Read("config.id"), Read("id bytes")>>]

\* agent_stop_vm answering an empty identifier with a code of its own
agent_stop_vm_OwnCode(vm_id) ==
    IF is_null(vm_id)
    THEN [ret |-> -1, acc |-> <<>>]
    ELSE IF CStr_to_bytes(vm_id.at) = <<>>
         THEN [ret |-> -2, acc |-> <<Read("id bytes")>>]
         ELSE [ret |-> 0, acc |-> <<Read("id bytes")>>]

\* agent_stop_vm
agent_stop_vm(vm_id) ==
    IF is_null(vm_id)
    THEN [ret |-> -1, acc |-> <<>>]
    ELSE IF CStr_to_bytes(vm_id.at) = <<>>
         THEN [ret |-> -1, acc |-> <<Read("id bytes")>>]
         ELSE [ret |-> 0, acc |-> <<Read("id bytes")>>]

\* agent_cleanup_vm
agent_cleanup_vm(vm_id) ==
    IF is_null(vm_id)
    THEN [ret |-> -1, acc |-> <<>>]
    ELSE IF CStr_to_bytes(vm_id.at) = <<>>
         THEN [ret |-> -1, acc |-> <<Read("id bytes")>>]
         ELSE [ret |-> 0, acc |-> <<Read("id bytes")>>]

\* the identifier a launch refers to (NULL when there is no configuration)
ConfigId(config) == IF is_null(config) THEN NULL ELSE config.at.id

\* the record of a completed call
Entry(op, id, r) == [op |-> op, id |-> id, status |-> r.ret, acc |-> r.acc]

(* ------------------------------- actions ------------------------------- *)

Init ==
    /\ history = <<>>
    /\ call = [op |-> "none"]
    /\ pending = <<>>
    /\ results = <<>>

\* a caller runs agent_launch_vm(config) to completion
Launch(config) ==
    /\ Len(history) < MaxCalls
    /\ history' = Append(history,
                         Entry("launch", ConfigId(config), agent_launch_vm(config)))
    /\ call' = [op |-> "launch", config |-> config]
    /\ UNCHANGED <<pending, results>>

\* a caller runs agent_stop_vm(vm_id) to completion
Stop(vm_id) ==
    /\ Len(history) < MaxCalls
    /\ history' = Append(history, Entry("stop", vm_id, agent_stop_vm(vm_id)))
    /\ call' = [op |-> "stop", vm_id |-> vm_id]
    /\ UNCHANGED <<pending, results>>

\* a caller runs agent_cleanup_vm(vm_id) to completion
Cleanup(vm_id) ==
    /\ Len(history) < MaxCalls
    /\ history' = Append(history, Entry("cleanup", vm_id, agent_cleanup_vm(vm_id)))
    /\ call' = [op |-> "cleanup", vm_id |-> vm_id]
    /\ UNCHANGED <<pending, results>>

Next ==
    \/ \E config \in ConfigPtrs : Launch(config)
    \/ \E vm_id \in CharPtrs : Stop(vm_id)
    \/ \E vm_id \in CharPtrs : Cleanup(vm_id)

Spec == Init /\ [][Next]_vars

(* ----------------- concurrent launches of one configuration ------------ *)

Threads == 1..NumThreads

\* every thread is about to call agent_launch_vm with the same configuration
ConcInit ==
    /\ history = <<>>
    /\ call = [op |-> "none"]
    /\ \E c \in AgentVMConfig : pending = [t \in Threads |-> Ptr(c)]
    /\ results = <<>>

\* thread t runs its agent_launch_vm call; the handler shares no data with
\* the other threads, so the call is one step of the interleaving
LaunchThread(t) ==
    /\ t \in DOMAIN pending
    /\ t \notin DOMAIN results
    /\ LET r == agent_launch_vm(pending[t]) IN
         /\ history' = Append(history, Entry("launch", ConfigId(pending[t]), r))
         /\ results' = (t :> r.ret) @@ results
    /\ call' = [op |-> "launch", config |-> pending[t]]
    /\ UNCHANGED pending

ConcNext == \E t \in Threads : LaunchThread(t)

ConcSpec == ConcInit /\ [][ConcNext]_vars

(* ---------------- vocabulary of the specification ----------------------- *)

\* the most recent completed call
Last == history[Len(history)]

\* the text a non-null char pointer refers to
Text(p) == CStr_to_bytes(p.at)

\* valid text encoding: a text of the bytes 'a' and 0xFF is valid UTF-8
\* exactly when every byte is ASCII
ValidText(bytes) == \A i \in DOMAIN bytes : bytes[i] < 128

\* VM Identifier validity: present, validly encoded, non-empty
ValidIdentifier(p) == ~is_null(p) /\ Text(p) # <<>> /\ ValidText(Text(p))

\* Configuration validity
ValidConfiguration(c) ==
    /\ ValidIdentifier(c.id)
    /\ ValidIdentifier(c.rootfs_image)
    /\ c.cpu_count # 0
    /\ c.memory_mib # 0
    /\ ~is_null(c.network_mode)

\* call i was op(id) and returned success
Ok(i, op, id) ==
    history[i].op = op /\ history[i].id = id /\ history[i].status = 0

\* before call j, id is Running: a launch of it succeeded and no stop or
\* cleanup of it has succeeded since
Running(id, j) ==
    \E i \in 1..(j - 1) :
        /\ Ok(i, "launch", id)
        /\ \A k \in (i + 1)..(j - 1) : ~Ok(k, "stop", id) /\ ~Ok(k, "cleanup", id)

\* before call j, id is Stopped: a stop of it succeeded and no launch or
\* cleanup of it has succeeded since
Stopped(id, j) ==
    \E i \in 1..(j - 1) :
        /\ Ok(i, "stop", id)
        /\ \A k \in (i + 1)..(j - 1) : ~Ok(k, "launch", id) /\ ~Ok(k, "cleanup", id)

\* the call recorded in e wrote no memory
NoWrites(e) == \A k \in DOMAIN e.acc : e.acc[k].kind = "read"

(* -------------------------------- claims -------------------------------- *)

\* C1: after a successful launch of an identifier, a later launch of the same
\* identifier with no successful cleanup of it in between returns a failure
\* status.
C1_SecondLaunchRejected ==
    \A i \in DOMAIN history : \A j \in DOMAIN history :
        ( /\ i < j
          /\ Ok(i, "launch", history[i].id)
          /\ history[j].op = "launch"
          /\ history[j].id = history[i].id
          /\ \A k \in (i + 1)..(j - 1) : ~Ok(k, "cleanup", history[i].id) )
        => history[j].status < 0

\* C2: cleanup(id) returns success only if a stop(id) succeeded after the
\* most recent successful launch(id); cleanup right after a successful
\* launch fails.
C2_CleanupOnlyAfterStop ==
    \A j \in DOMAIN history :
        (history[j].op = "cleanup" /\ history[j].status = 0)
        => Stopped(history[j].id, j)

\* C3: stop(id) returns success only when id is Running, fails for an
\* identifier that is not tracked or already Stopped, and never writes state.
C3_StopOnlyWhenRunning ==
    \A j \in DOMAIN history :
        history[j].op = "stop"
        => /\ history[j].status = 0 => Running(history[j].id, j)
           /\ ~Running(history[j].id, j) => history[j].status < 0
           /\ NoWrites(history[j])

\* C4: when every one of N >= 2 threads has run launch with the same valid
\* configuration, exactly one call returned success and every other call a
\* failure status.
C4_ExactlyOneLaunchSucceeds ==
    ( /\ DOMAIN results = Threads
      /\ \A t \in Threads : ValidConfiguration(pending[t].at) )
    => /\ Cardinality({t \in Threads : results[t] = 0}) = 1
       /\ \A t \in Threads : results[t] # 0 => results[t] < 0

\* C5: launch with rootfs_image absent or empty, cpu_count 0, memory_mib 0 or
\* network_mode absent returns a failure status, whatever the id.
C5_InvalidConfigRejected ==
    ( /\ call.op = "launch"
      /\ ~is_null(call.config)
      /\ \/ is_null(call.config.at.rootfs_image)
         \/ Text(call.config.at.rootfs_image) = <<>>
         \/ call.config.at.cpu_count = 0
         \/ call.config.at.memory_mib = 0
         \/ is_null(call.config.at.network_mode) )
    => Last.status < 0

\* C6: every launch, stop or cleanup that refers to an identifier that is
\* absent, empty or not validly encoded returns the failure status and writes
\* no state.
C6_InvalidIdRejected ==
    \A i \in DOMAIN history :
        ~ValidIdentifier(history[i].id)
        => history[i].status = -1 /\ NoWrites(history[i])

\* C7: a launch with a null configuration reference returns the failure
\* status without reading any field of the configuration and without
\* writing any state.
C7_NullConfigRejected ==
    (call.op = "launch" /\ is_null(call.config))
    => Last.status = -1 /\ Last.acc = <<>>

\* a launch with a null configuration has returned after an earlier launch
\* succeeded
C7_Witness ==
    /\ Len(history) >= 2
    /\ call.op = "launch"
    /\ is_null(call.config)
    /\ history[1].op = "launch"
    /\ history[1].status = 0

\* the last four calls were launch(x), stop(x), cleanup(x), all successful,
\* and launch(x) with a valid configuration
RoundTripThenLaunch ==
    /\ Len(history) >= 4
    /\ call.op = "launch"
    /\ ~is_null(call.config)
    /\ ValidConfiguration(call.config.at)
    /\ LET n == Len(history)
           x == call.config.at.id
       IN  Ok(n - 3, "launch", x) /\ Ok(n - 2, "stop", x) /\ Ok(n - 1, "cleanup", x)

\* C8: after launch(x), stop(x), cleanup(x) all succeeded, none of them has
\* written state and a following launch(x) with a valid configuration
\* succeeds.
C8_RoundTripReuse ==
    RoundTripThenLaunch
    => /\ Last.status = 0
       /\ \A i \in (Len(history) - 3)..Len(history) : NoWrites(history[i])

\* a round trip followed by a launch of the same identifier has completed
C8_Witness == RoundTripThenLaunch /\ Last.status = 0

\* C9: every call returns 0 or -1.
C9_StatusZeroOrMinusOne ==
    \A i \in DOMAIN history : history[i].status \in {0, -1}

\* each of the three operations has returned, and both statuses have occurred
C9_Witness ==
    /\ \A op \in {"launch", "stop", "cleanup"} :
           \E i \in DOMAIN history : history[i].op = op
    /\ \E i \in DOMAIN history : history[i].status = 0
    /\ \E i \in DOMAIN history : history[i].status = -1

\* the status the arguments alone determine: success exactly when the
\* identifier is present and non-empty
StatusOfArguments(id) == IF ~is_null(id) /\ Text(id) # <<>> THEN 0 ELSE -1

====
